---- MODULE Spec2Model ----
(***************************************************************************)
(* Model of the watcher core (src/watcher/core/src/watcher_core.cpp):      *)
(* the lifecycle controller, the variable registry, the SPSC event queue   *)
(* and the fast-path handler thread.                                       *)
(*                                                                         *)
(* Spec   : the program as written.  API calls of the host are atomic      *)
(*          actions (each holds its mutex for the whole call), except      *)
(*          stop, whose wait loop lets the worker threads run.  The        *)
(*          handler thread and EventQueue::enqueue advance one source      *)
(*          statement at a time.                                           *)
(* SpecQ  : the EventQueue class alone, with one producer calling enqueue  *)
(*          and one consumer calling dequeue, one statement at a time.     *)
(* SpecR  : registration under the host's lifecycle calls: registerPage    *)
(*          advances one block of statements at a time and lifecycle calls *)
(*          run between its blocks; the worker threads, which never touch  *)
(*          the registry, take no step.                                    *)
(* SpecV  : the descriptors of the registry (snapshots, metadata, ids) of  *)
(*          a core the host initializes, starts and leaves running.        *)
(***************************************************************************)
EXTENDS Integers, Sequences, FiniteSets, TLC

(***************************************************************************)
(* Bounds of the model                                                     *)
(***************************************************************************)
\* number of fault records the fault channel delivers in one behaviour
MaxFaults == 2
\* largest batch one read() of the fault channel returns (msgs(16) in the code)
MaxBatch == 2
\* number of registerPage calls that reach the id generator
MaxRegs == 1
\* largest reading of the clock
MaxClock == 1
\* number of enqueue calls of the stand-alone producer of SpecQ
MaxOps == 4
\* number of registerPage calls that reach the id generator in SpecV
MaxRegsV == 2
\* width of size_t in the model; the code's is 64, which the model checker's
\* integers cannot hold.  Only "0 - 1 wraps to the largest value" matters.
SizeBits == 8
\* steps of std::chrono::system_clock in one second
TicksPerSecond == 2

(***************************************************************************)
(* Program constants                                                       *)
(***************************************************************************)
PAGE_SIZE == 4096

\* enum State, watcher_core.hpp:147
State == {"UNINITIALIZED", "INITIALIZED", "RUNNING", "PAUSED", "STOPPED", "ERROR"}

\* nullptr, for Node* values
NULL == -1
\* the empty string an id-returning call answers on error
NoId == << >>

\* max_queue_size arguments passed to initialize
Capacities == {1}
\* capacities of the stand-alone queue of SpecQ
QCapacities == {1, 2}
\* timeout_ms arguments passed to stop
Timeouts == {0, 10}
\* page_base arguments passed to registerPage (0 is the null pointer)
PageBases == {0, 4096}
\* page_size arguments passed to registerPage
PageSizes == {4096}
\* addresses a fault record can carry
FaultAddrs == {4096 + 128}
\* outcomes of extractInstructionPointer
Ips == {0}
\* thread ids the kernel reports
Tids == {7}

SizeMod == 2 ^ SizeBits

VARIABLES
    state_,             \* State state_
    state_mutex_,       \* "free", or the call that holds it
    error_message_,     \* std::string error_message_
    output_dir_,        \* std::string output_dir_
    event_queue_,       \* std::unique_ptr<EventQueue>: the queue object
    variables_,         \* registry: id -> VariableMetadata
    uffd_,              \* fault channel descriptor, -1 when not open
    armed,              \* ranges registered with the fault channel
    handler_thread_,    \* joinable() of the std::thread handle
    slow_path_thread_,  \* joinable() of the std::thread handle
    running_,           \* std::atomic<bool> running_
    events_received_,
    events_processed_,
    events_dropped_,
    counter,            \* static std::atomic<uint64_t> counter of registerPage
    reg_,               \* locals of a registerPage call in progress
    now,                \* the last reading of std::chrono::system_clock
    stop_,              \* locals of a stop call in progress
    h_pc,               \* position of the producer thread (handlerLoop)
    h_msgs,             \* msgs read by the handler, still to be handled
    h_event,            \* FastPathEvent event of handlePageFault
    p_new_node,         \* enqueue: Node* new_node
    p_old_tail,         \* enqueue: Node* old_tail
    p_ret,              \* enqueue: value returned
    s_pc,               \* position of the slowPathLoop thread
    c_pc,               \* position of the consumer (dequeue)
    c_old_head,         \* dequeue: Node* old_head
    c_next,             \* dequeue: Node* next
    c_event,            \* dequeue: FastPathEvent& event
    ret,                \* what the API call that returned last has returned
    cache_,             \* SymbolCache::cache_: ip -> Entry
    hist                \* history: counts and sequences the claims refer to

vars == << state_, state_mutex_, error_message_, output_dir_, event_queue_,
           variables_, uffd_, armed, handler_thread_, slow_path_thread_,
           running_, events_received_, events_processed_, events_dropped_,
           counter, reg_, now, stop_, h_pc, h_msgs, h_event, p_new_node, p_old_tail,
           p_ret, s_pc, c_pc, c_old_head, c_next, c_event, ret, cache_, hist >>

lifecycle_vars == << state_, state_mutex_, error_message_, output_dir_, uffd_,
                     handler_thread_, slow_path_thread_, running_, stop_ >>
registry_vars == << variables_, armed, counter, reg_ >>
metrics_vars == << events_received_, events_processed_, events_dropped_ >>
handler_vars == << h_pc, h_msgs, h_event >>
producer_vars == << p_new_node, p_old_tail, p_ret >>
consumer_vars == << c_pc, c_old_head, c_next, c_event >>

(***************************************************************************)
(* EventQueue: the object and its constructor                              *)
(***************************************************************************)
\* node addresses the allocator can hand out
MaxNodes == MaxOps + MaxFaults + 1
NodeIds == 0 .. (MaxNodes - 1)

\* FastPathEvent(): a default constructed event
NoEvent == [event_id |-> -1, ts_ns |-> 0, page_base |-> 0, fault_addr |-> 0,
            tid |-> 0, ip |-> 0]

\* new Node(): value-initialised, next == nullptr
NewNode == [event |-> NoEvent, next |-> NULL, st |-> "live"]
FreeNode == [event |-> NoEvent, next |-> NULL, st |-> "unalloc"]

\* the address operator new returns: the lowest one never handed out
FreshNode(q) == CHOOSE n \in NodeIds :
                   /\ q.heap[n].st = "unalloc"
                   /\ \A m \in NodeIds : m < n => q.heap[m].st # "unalloc"
CanAlloc(q) == \E n \in NodeIds : q.heap[n].st = "unalloc"

\* event_queue_ before initialize: the unique_ptr is empty
NoQueue == [alloc |-> FALSE, capacity_ |-> 0, size_ |-> 0, head_ |-> NULL,
            tail_ |-> NULL, heap |-> [n \in NodeIds |-> FreeNode]]

\* EventQueue(size_t capacity)
EventQueue(capacity) ==
    [alloc |-> TRUE, capacity_ |-> capacity, size_ |-> 0, head_ |-> 0,
     tail_ |-> 0,
     heap |-> [n \in NodeIds |-> IF n = 0 THEN NewNode ELSE FreeNode]]

\* EventQueue::size()
size(q) == q.size_

\* the events linked after the sentinel head, in list order
RECURSIVE Linked(_, _, _)
Linked(q, n, fuel) ==
    IF n = NULL \/ fuel = 0 THEN << >>
    ELSE << q.heap[n].event >> \o Linked(q, q.heap[n].next, fuel - 1)
Contents(q) == IF q.alloc THEN Linked(q, q.heap[q.head_].next, MaxNodes)
               ELSE << >>

(***************************************************************************)
(* Initial state: WatcherCoreImpl()                                        *)
(***************************************************************************)
\* std::unordered_map<std::string, VariableMetadata>(): the empty registry
NoVariables == [id \in {} |-> 0]

NoCall == [ok |-> FALSE, id |-> NoId]
\* no stop call in progress; from is history: the state the last stop call found
NoStop == [pc |-> "idle", timeout_ms |-> 0, elapsed |-> 0, from |-> "none"]
\* no registerPage call in progress
NoReg == [pc |-> "idle", page_base |-> 0, page_size |-> 0, name |-> "",
          flags |-> 0, mutation_depth |-> [full_page |-> FALSE, byte_range |-> 0],
          variable_id |-> NoId]
\* an empty std::unordered_map<uint64_t, Entry>
NoCache == << >>
\* ids: the ids registerPage has returned so far
\* sets: ip -> the arguments and the clock reading of the latest
\* SymbolCache::set of ip since the last SymbolCache::clear
NoHist == [delivered |-> 0, handled |-> 0, enq_ok |-> << >>, deq_ok |-> << >>,
           calls |-> 0, read_paused |-> FALSE, ids |-> {}, sets |-> << >>]

Init ==
    /\ state_ = "UNINITIALIZED"
    /\ state_mutex_ = "free"
    /\ error_message_ = ""
    /\ output_dir_ = ""
    /\ event_queue_ = NoQueue
    /\ variables_ = NoVariables
    /\ uffd_ = -1
    /\ armed = {}
    /\ handler_thread_ = FALSE
    /\ slow_path_thread_ = FALSE
    /\ running_ = FALSE
    /\ events_received_ = 0
    /\ events_processed_ = 0
    /\ events_dropped_ = 0
    /\ counter = 0
    /\ reg_ = NoReg
    /\ now = 0
    /\ stop_ = NoStop
    /\ h_pc = "none"
    /\ h_msgs = << >>
    /\ h_event = NoEvent
    /\ p_new_node = NULL
    /\ p_old_tail = NULL
    /\ p_ret = FALSE
    /\ s_pc = "none"
    /\ c_pc = "idle"
    /\ c_old_head = NULL
    /\ c_next = NULL
    /\ c_event = NoEvent
    /\ ret = NoCall
    /\ cache_ = NoCache
    /\ hist = NoHist

\* a bool-returning call returns ok
Returned(ok) == [ok |-> ok, id |-> NoId]

(***************************************************************************)
(* Lifecycle controller                                                    *)
(***************************************************************************)
\* initialize without its "state_ != UNINITIALIZED" rejection
initialize_no_check(output_dir, max_queue_size, open) ==
    /\ state_mutex_ = "free"
    /\ output_dir_' = output_dir
    /\ event_queue_' = EventQueue(max_queue_size)
    /\ CASE open = "syscall_fails" ->
              /\ uffd_' = -1
              /\ error_message_' = "Failed to create userfaultfd"
              /\ state_' = "ERROR"
              /\ ret' = Returned(FALSE)
         [] open = "ioctl_fails" ->
              /\ uffd_' = -1
              /\ error_message_' = "Failed to configure userfaultfd"
              /\ state_' = "ERROR"
              /\ ret' = Returned(FALSE)
         [] OTHER ->
              /\ uffd_' = 3
              /\ state_' = "INITIALIZED"
              /\ ret' = Returned(TRUE)
              /\ UNCHANGED error_message_
    /\ UNCHANGED << state_mutex_, handler_thread_, slow_path_thread_, running_,
                    stop_, registry_vars, metrics_vars, now, handler_vars,
                    producer_vars, s_pc, consumer_vars, hist, cache_ >>

\* initialize(output_dir, max_queue_size); open is the outcome of the
\* userfaultfd syscall and of the UFFDIO_API ioctl
initialize(output_dir, max_queue_size, open) ==
    /\ state_mutex_ = "free"
    /\ IF state_ # "UNINITIALIZED"
       THEN /\ error_message_' = "Core already initialized"
            /\ ret' = Returned(FALSE)
            /\ UNCHANGED << state_, output_dir_, event_queue_, uffd_ >>
       ELSE /\ output_dir_' = output_dir
            /\ event_queue_' = EventQueue(max_queue_size)
            /\ CASE open = "syscall_fails" ->
                      /\ uffd_' = -1
                      /\ error_message_' = "Failed to create userfaultfd"
                      /\ state_' = "ERROR"
                      /\ ret' = Returned(FALSE)
                 [] open = "ioctl_fails" ->
                      /\ uffd_' = -1
                      /\ error_message_' = "Failed to configure userfaultfd"
                      /\ state_' = "ERROR"
                      /\ ret' = Returned(FALSE)
                 [] OTHER ->
                      /\ uffd_' = 3
                      /\ state_' = "INITIALIZED"
                      /\ ret' = Returned(TRUE)
                      /\ UNCHANGED error_message_
    /\ UNCHANGED << state_mutex_, handler_thread_, slow_path_thread_, running_,
                    stop_, registry_vars, metrics_vars, now, handler_vars,
                    producer_vars, s_pc, consumer_vars, hist, cache_ >>

\* start that spawns the threads without setting running_
start_no_flag ==
    /\ state_mutex_ = "free"
    /\ IF state_ # "INITIALIZED"
       THEN /\ error_message_' = "Core not initialized"
            /\ ret' = Returned(FALSE)
            /\ UNCHANGED << state_, handler_thread_, slow_path_thread_, h_pc,
                            s_pc >>
       ELSE /\ state_' = "RUNNING"
            /\ handler_thread_' = TRUE
            /\ h_pc' = "while"
            /\ slow_path_thread_' = TRUE
            /\ s_pc' = "while"
            /\ ret' = Returned(TRUE)
            /\ UNCHANGED error_message_
    /\ UNCHANGED << state_mutex_, output_dir_, event_queue_, uffd_, stop_,
                    running_, registry_vars, metrics_vars, now, h_msgs, h_event,
                    producer_vars, consumer_vars, hist, cache_ >>

\* start without its "state_ != INITIALIZED" rejection
start_no_check ==
    /\ state_mutex_ = "free"
    /\ running_' = TRUE
    /\ state_' = "RUNNING"
    /\ handler_thread_' = TRUE
    /\ h_pc' = "while"
    /\ slow_path_thread_' = TRUE
    /\ s_pc' = "while"
    /\ ret' = Returned(TRUE)
    /\ UNCHANGED << state_mutex_, error_message_, output_dir_, event_queue_,
                    uffd_, stop_, registry_vars, metrics_vars, now, h_msgs,
                    h_event, producer_vars, consumer_vars, hist, cache_ >>

\* start()
start ==
    /\ state_mutex_ = "free"
    /\ IF state_ # "INITIALIZED"
       THEN /\ error_message_' = "Core not initialized"
            /\ ret' = Returned(FALSE)
            /\ UNCHANGED << state_, running_, handler_thread_,
                            slow_path_thread_, h_pc, s_pc >>
       ELSE /\ running_' = TRUE
            /\ state_' = "RUNNING"
            /\ handler_thread_' = TRUE
            /\ h_pc' = "while"
            /\ slow_path_thread_' = TRUE
            /\ s_pc' = "while"
            /\ ret' = Returned(TRUE)
            /\ UNCHANGED error_message_
    /\ UNCHANGED << state_mutex_, output_dir_, event_queue_, uffd_, stop_,
                    registry_vars, metrics_vars, now, h_msgs, h_event,
                    producer_vars, consumer_vars, hist, cache_ >>

\* pause without its "state_ != RUNNING" rejection
pause_no_check ==
    /\ state_mutex_ = "free"
    /\ state_' = "PAUSED"
    /\ ret' = Returned(TRUE)
    /\ UNCHANGED error_message_
    /\ UNCHANGED << state_mutex_, output_dir_, event_queue_, uffd_,
                    handler_thread_, slow_path_thread_, running_, stop_,
                    registry_vars, metrics_vars, now, handler_vars,
                    producer_vars, s_pc, consumer_vars, hist, cache_ >>

\* pause()
pause ==
    /\ state_mutex_ = "free"
    /\ IF state_ # "RUNNING"
       THEN /\ error_message_' = "Core not running"
            /\ ret' = Returned(FALSE)
            /\ UNCHANGED state_
       ELSE /\ state_' = "PAUSED"
            /\ ret' = Returned(TRUE)
            /\ UNCHANGED error_message_
    /\ UNCHANGED << state_mutex_, output_dir_, event_queue_, uffd_,
                    handler_thread_, slow_path_thread_, running_, stop_,
                    registry_vars, metrics_vars, now, handler_vars,
                    producer_vars, s_pc, consumer_vars, hist, cache_ >>

\* resume that reports success without leaving PAUSED
resume_stays_paused ==
    /\ state_mutex_ = "free"
    /\ IF state_ # "PAUSED"
       THEN /\ error_message_' = "Core not paused"
            /\ ret' = Returned(FALSE)
            /\ UNCHANGED state_
       ELSE /\ state_' = "PAUSED"
            /\ ret' = Returned(TRUE)
            /\ UNCHANGED error_message_
    /\ UNCHANGED << state_mutex_, output_dir_, event_queue_, uffd_,
                    handler_thread_, slow_path_thread_, running_, stop_,
                    registry_vars, metrics_vars, now, handler_vars,
                    producer_vars, s_pc, consumer_vars, hist, cache_ >>

\* resume()
resume ==
    /\ state_mutex_ = "free"
    /\ IF state_ # "PAUSED"
       THEN /\ error_message_' = "Core not paused"
            /\ ret' = Returned(FALSE)
            /\ UNCHANGED state_
       ELSE /\ state_' = "RUNNING"
            /\ ret' = Returned(TRUE)
            /\ UNCHANGED error_message_
    /\ UNCHANGED << state_mutex_, output_dir_, event_queue_, uffd_,
                    handler_thread_, slow_path_thread_, running_, stop_,
                    registry_vars, metrics_vars, now, handler_vars,
                    producer_vars, s_pc, consumer_vars, hist, cache_ >>

\* stop whose early return answers false for STOPPED as it does for ERROR
stop_enter_rejects_stopped(timeout_ms) ==
    /\ state_mutex_ = "free"
    /\ IF state_ \in {"STOPPED", "ERROR", "UNINITIALIZED"}
       THEN /\ ret' = Returned(state_ = "UNINITIALIZED")
            /\ stop_' = [NoStop EXCEPT !.from = state_]
            /\ UNCHANGED << state_, running_, state_mutex_ >>
       ELSE /\ running_' = FALSE
            /\ state_' = "STOPPED"
            /\ state_mutex_' = "stop"
            /\ stop_' = [pc |-> "wait", timeout_ms |-> timeout_ms,
                         elapsed |-> 0, from |-> state_]
            /\ UNCHANGED ret
    /\ UNCHANGED << error_message_, output_dir_, event_queue_, uffd_,
                    handler_thread_, slow_path_thread_, registry_vars,
                    metrics_vars, now, handler_vars, producer_vars, s_pc,
                    consumer_vars, hist, cache_ >>

\* stop whose early return forgets ERROR
stop_enter_from_error(timeout_ms) ==
    /\ state_mutex_ = "free"
    /\ IF state_ \in {"STOPPED", "UNINITIALIZED"}
       THEN /\ ret' = Returned(TRUE)
            /\ stop_' = [NoStop EXCEPT !.from = state_]
            /\ UNCHANGED << state_, running_, state_mutex_ >>
       ELSE /\ running_' = FALSE
            /\ state_' = "STOPPED"
            /\ state_mutex_' = "stop"
            /\ stop_' = [pc |-> "wait", timeout_ms |-> timeout_ms,
                         elapsed |-> 0, from |-> state_]
            /\ UNCHANGED ret
    /\ UNCHANGED << error_message_, output_dir_, event_queue_, uffd_,
                    handler_thread_, slow_path_thread_, registry_vars,
                    metrics_vars, now, handler_vars, producer_vars, s_pc,
                    consumer_vars, hist, cache_ >>

\* stop(timeout_ms), up to the wait loop: the early return, or the flag and
\* state change.  The lock_guard keeps state_mutex_ until stop returns.
stop_enter(timeout_ms) ==
    /\ state_mutex_ = "free"
    /\ IF state_ \in {"STOPPED", "ERROR", "UNINITIALIZED"}
       THEN /\ ret' = Returned(state_ # "ERROR")
            /\ stop_' = [NoStop EXCEPT !.from = state_]
            /\ UNCHANGED << state_, running_, state_mutex_ >>
       ELSE /\ running_' = FALSE
            /\ state_' = "STOPPED"
            /\ state_mutex_' = "stop"
            /\ stop_' = [pc |-> "wait", timeout_ms |-> timeout_ms,
                         elapsed |-> 0, from |-> state_]
            /\ UNCHANGED ret
    /\ UNCHANGED << error_message_, output_dir_, event_queue_, uffd_,
                    handler_thread_, slow_path_thread_, registry_vars,
                    metrics_vars, now, handler_vars, producer_vars, s_pc,
                    consumer_vars, hist, cache_ >>

\* one iteration of stop's wait loop: sleep_for(10 ms)
stop_wait ==
    /\ stop_.pc = "wait"
    /\ handler_thread_
    /\ stop_.elapsed < stop_.timeout_ms
    /\ stop_' = [stop_ EXCEPT !.elapsed = @ + 10]
    /\ UNCHANGED << state_, state_mutex_, error_message_, output_dir_,
                    event_queue_, uffd_, handler_thread_, slow_path_thread_,
                    running_, registry_vars, metrics_vars, now, handler_vars,
                    producer_vars, s_pc, consumer_vars, ret, hist, cache_ >>

\* the rest of stop: detach both threads and return true
stop_detach ==
    /\ stop_.pc = "wait"
    /\ ~(handler_thread_ /\ stop_.elapsed < stop_.timeout_ms)
    /\ handler_thread_' = FALSE
    /\ slow_path_thread_' = FALSE
    /\ state_mutex_' = "free"
    /\ stop_' = [NoStop EXCEPT !.from = stop_.from]
    /\ ret' = Returned(TRUE)
    /\ UNCHANGED << state_, error_message_, output_dir_, event_queue_, uffd_,
                    running_, registry_vars, metrics_vars, now, handler_vars,
                    producer_vars, s_pc, consumer_vars, hist, cache_ >>

\* getState(), getErrorMessage(): both wait for state_mutex_
getState == state_
getErrorMessage == error_message_

\* getMetrics()
getMetrics ==
    [events_received |-> events_received_,
     events_processed |-> events_processed_,
     events_dropped |-> events_dropped_,
     callbacks_failed |-> 0,
     mean_latency_ms |-> 0,
     \* static_cast<uint32_t> keeps the low 32 bits: all SizeBits of the model
     queue_depth |-> IF event_queue_.alloc THEN size(event_queue_) ELSE 0]

(***************************************************************************)
(* Variable registry                                                       *)
(***************************************************************************)
\* the bytes memcpy reads from the caller's page: the model keeps a byte
\* vector as its length and the value that fills it
PageBytes(page_base, page_size) == [len |-> page_size, fill |-> 0]

\* std::vector<uint8_t>{}: the empty byte vector
NoBytes == [len |-> 0, fill |-> 0]

\* the range a UFFDIO_REGISTER ioctl names
Range(page_base, page_size) == [start |-> page_base, len |-> page_size]

\* std::chrono::system_clock::now(): no earlier than the last reading
ClockReadings == now .. MaxClock

\* an id made of the clock reading alone
VariableId_clock_only(clock, n) == << "var", clock, 0 >>

\* "var-" << now << "-" << counter
VariableId(clock, n) == << "var", clock, n >>

\* std::mutex variables_mutex_: every registry call holds it from its first
\* statement to its return
variables_mutex_ == IF reg_.pc = "idle" THEN "free" ELSE "registerPage"

\* the ranges the kernel accepts in a UFFDIO_REGISTER ioctl: page aligned,
\* not empty, a whole number of pages
KernelAccepts(page_base, page_size) ==
    /\ page_base # 0
    /\ page_base % PAGE_SIZE = 0
    /\ page_size > 0
    /\ page_size % PAGE_SIZE = 0

\* registerPage(page_base, page_size, name, flags, mutation_depth) as one
\* step; ioctl_ok is the outcome of the UFFDIO_REGISTER ioctl
registerPage(page_base, page_size, name, flags, mutation_depth, ioctl_ok, clock) ==
    LET variable_id == VariableId(clock, counter)
        meta == [variable_id |-> variable_id,
                 page_base |-> page_base,
                 page_size |-> page_size,
                 name |-> name,
                 flags |-> flags,
                 mutation_depth |-> mutation_depth,
                 initial_snapshot |-> PageBytes(page_base, page_size),
                 registered_at |-> clock]
    IN
    /\ variables_mutex_ = "free"
    /\ counter < MaxRegs
    /\ ioctl_ok => KernelAccepts(page_base, page_size)
    /\ IF state_ \in {"STOPPED", "ERROR"}
       THEN /\ ret' = [ok |-> FALSE, id |-> NoId]
            /\ UNCHANGED << counter, armed, variables_, error_message_, now,
                            hist >>
       ELSE /\ counter' = counter + 1
            /\ now' = clock
            /\ IF state_ \in {"RUNNING", "PAUSED"} /\ ~ioctl_ok
               THEN /\ ret' = [ok |-> FALSE, id |-> NoId]
                    /\ UNCHANGED << armed, variables_, error_message_, hist >>
               ELSE /\ armed' = IF state_ \in {"RUNNING", "PAUSED"}
                                THEN armed \cup {Range(page_base, page_size)}
                                ELSE armed
                    /\ IF page_base = 0
                       THEN /\ error_message_' =
                                   "Cannot snapshot null page_base address"
                            /\ ret' = [ok |-> FALSE, id |-> NoId]
                            /\ UNCHANGED << variables_, hist >>
                       ELSE /\ variables_' =
                                   [id \in DOMAIN variables_ \cup {variable_id}
                                      |-> IF id = variable_id THEN meta
                                          ELSE variables_[id]]
                            /\ ret' = [ok |-> TRUE, id |-> variable_id]
                            /\ hist' = [hist EXCEPT !.ids = @ \cup {variable_id}]
                            /\ UNCHANGED error_message_
    /\ UNCHANGED << state_, state_mutex_, output_dir_, event_queue_, uffd_,
                    handler_thread_, slow_path_thread_, running_, stop_, reg_,
                    metrics_vars, handler_vars, producer_vars, s_pc,
                    consumer_vars, cache_ >>

\* unregisterPage that empties the registry: variables_.clear()
unregisterPage_clear(variable_id) ==
    /\ variables_mutex_ = "free"
    /\ IF variable_id \notin DOMAIN variables_
       THEN /\ ret' = Returned(FALSE)
            /\ UNCHANGED variables_
       ELSE /\ variables_' = NoVariables
            /\ ret' = Returned(TRUE)
    /\ UNCHANGED << lifecycle_vars, event_queue_, armed, counter, reg_,
                    metrics_vars, now, handler_vars, producer_vars, s_pc,
                    consumer_vars, hist, cache_ >>

\* unregisterPage(variable_id)
unregisterPage(variable_id) ==
    /\ variables_mutex_ = "free"
    /\ IF variable_id \notin DOMAIN variables_
       THEN /\ ret' = Returned(FALSE)
            /\ UNCHANGED variables_
       ELSE /\ variables_' = [id \in DOMAIN variables_ \ {variable_id}
                                |-> variables_[id]]
            /\ ret' = Returned(TRUE)
    /\ UNCHANGED << lifecycle_vars, event_queue_, armed, counter, reg_,
                    metrics_vars, now, handler_vars, producer_vars, s_pc,
                    consumer_vars, hist, cache_ >>

\* ids a caller may pass: the ones registerPage can have returned, and "no-such"
VariableIds == { VariableId(c, n) : c \in 0 .. MaxClock, n \in 0 .. (MaxRegs - 1) }
                 \cup { << "no-such" >> }

(***************************************************************************)
(* registerPage, one block of statements at a time: state_ is read twice   *)
(* without state_mutex_, so a lifecycle call can run between the blocks    *)
(***************************************************************************)
\* lock variables_mutex_; the STOPPED/ERROR check; the id generator
registerPage_enter(page_base, page_size, name, flags, mutation_depth, clock) ==
    /\ variables_mutex_ = "free"
    /\ IF state_ \in {"STOPPED", "ERROR"}
       THEN /\ ret' = [ok |-> FALSE, id |-> NoId]
            /\ UNCHANGED << counter, now, reg_ >>
       ELSE /\ counter' = counter + 1
            /\ now' = clock
            /\ reg_' = [pc |-> "arm", page_base |-> page_base,
                        page_size |-> page_size, name |-> name, flags |-> flags,
                        mutation_depth |-> mutation_depth,
                        variable_id |-> VariableId(clock, counter)]
            /\ UNCHANGED ret
    /\ UNCHANGED << lifecycle_vars, event_queue_, variables_, armed,
                    metrics_vars, handler_vars, producer_vars, s_pc,
                    consumer_vars, hist, cache_ >>

\* the arming block with the descriptor inserted before the ioctl and left
\* in the registry when the ioctl fails
registerPage_arm_keeps(ioctl_ok) ==
    /\ reg_.pc = "arm"
    /\ ioctl_ok => KernelAccepts(reg_.page_base, reg_.page_size)
    /\ IF state_ \in {"RUNNING", "PAUSED"}
       THEN IF ioctl_ok
            THEN /\ armed' = armed \cup {Range(reg_.page_base, reg_.page_size)}
                 /\ reg_' = [reg_ EXCEPT !.pc = "snapshot"]
                 /\ UNCHANGED << ret, variables_ >>
            ELSE /\ ret' = [ok |-> FALSE, id |-> NoId]
                 /\ reg_' = NoReg
                 /\ variables_' =
                        [id \in DOMAIN variables_ \cup {reg_.variable_id}
                           |-> IF id = reg_.variable_id
                               THEN [variable_id |-> reg_.variable_id,
                                     page_base |-> reg_.page_base,
                                     page_size |-> reg_.page_size,
                                     name |-> reg_.name,
                                     flags |-> reg_.flags,
                                     mutation_depth |-> reg_.mutation_depth,
                                     initial_snapshot |-> NoBytes,
                                     registered_at |-> now]
                               ELSE variables_[id]]
                 /\ UNCHANGED armed
       ELSE /\ reg_' = [reg_ EXCEPT !.pc = "snapshot"]
            /\ UNCHANGED << armed, ret, variables_ >>
    /\ UNCHANGED << lifecycle_vars, event_queue_, counter, metrics_vars, now,
                    handler_vars, producer_vars, s_pc, consumer_vars, hist,
                    cache_ >>

\* if (state_ == RUNNING || state_ == PAUSED) ioctl(uffd_, UFFDIO_REGISTER)
registerPage_arm(ioctl_ok) ==
    /\ reg_.pc = "arm"
    /\ ioctl_ok => KernelAccepts(reg_.page_base, reg_.page_size)
    /\ IF state_ \in {"RUNNING", "PAUSED"}
       THEN IF ioctl_ok
            THEN /\ armed' = armed \cup {Range(reg_.page_base, reg_.page_size)}
                 /\ reg_' = [reg_ EXCEPT !.pc = "snapshot"]
                 /\ UNCHANGED ret
            ELSE /\ ret' = [ok |-> FALSE, id |-> NoId]
                 /\ reg_' = NoReg
                 /\ UNCHANGED armed
       ELSE /\ reg_' = [reg_ EXCEPT !.pc = "snapshot"]
            /\ UNCHANGED << armed, ret >>
    /\ UNCHANGED << lifecycle_vars, event_queue_, variables_, counter,
                    metrics_vars, now, handler_vars, producer_vars, s_pc,
                    consumer_vars, hist, cache_ >>

\* the null check, the snapshot, the descriptor and its insertion
registerPage_insert(clock) ==
    LET meta == [variable_id |-> reg_.variable_id,
                 page_base |-> reg_.page_base,
                 page_size |-> reg_.page_size,
                 name |-> reg_.name,
                 flags |-> reg_.flags,
                 mutation_depth |-> reg_.mutation_depth,
                 initial_snapshot |-> PageBytes(reg_.page_base, reg_.page_size),
                 registered_at |-> clock]
    IN
    /\ reg_.pc = "snapshot"
    /\ IF reg_.page_base = 0
       THEN /\ error_message_' = "Cannot snapshot null page_base address"
            /\ ret' = [ok |-> FALSE, id |-> NoId]
            /\ UNCHANGED << variables_, now, hist >>
       ELSE /\ variables_' =
                   [id \in DOMAIN variables_ \cup {reg_.variable_id}
                      |-> IF id = reg_.variable_id THEN meta
                          ELSE variables_[id]]
            /\ now' = clock
            /\ ret' = [ok |-> TRUE, id |-> reg_.variable_id]
            /\ hist' = [hist EXCEPT !.ids = @ \cup {reg_.variable_id}]
            /\ UNCHANGED error_message_
    /\ reg_' = NoReg
    /\ UNCHANGED << state_, state_mutex_, output_dir_, event_queue_, uffd_,
                    handler_thread_, slow_path_thread_, running_, stop_, armed,
                    counter, metrics_vars, handler_vars, producer_vars, s_pc,
                    consumer_vars, cache_ >>

\* readSnapshot(variable_id): the value returned
readSnapshot(variable_id) ==
    IF variable_id \notin DOMAIN variables_ THEN NoBytes
    ELSE variables_[variable_id].initial_snapshot

\* writeSnapshot that returns true without storing the bytes
writeSnapshot_dropped(variable_id, snapshot) ==
    /\ variables_mutex_ = "free"
    /\ ret' = Returned(variable_id \in DOMAIN variables_)
    /\ UNCHANGED << lifecycle_vars, event_queue_, registry_vars, metrics_vars,
                    now, handler_vars, producer_vars, s_pc, consumer_vars,
                    hist, cache_ >>

\* writeSnapshot(variable_id, snapshot)
writeSnapshot(variable_id, snapshot) ==
    /\ variables_mutex_ = "free"
    /\ IF variable_id \notin DOMAIN variables_
       THEN /\ ret' = Returned(FALSE)
            /\ UNCHANGED variables_
       ELSE /\ variables_' = [variables_ EXCEPT
                                ![variable_id].initial_snapshot = snapshot]
            /\ ret' = Returned(TRUE)
    /\ UNCHANGED << lifecycle_vars, event_queue_, armed, counter, reg_,
                    metrics_vars, now, handler_vars, producer_vars, s_pc,
                    consumer_vars, hist, cache_ >>

\* updateMetadata(variable_id, metadata)
updateMetadata(variable_id, metadata) ==
    /\ variables_mutex_ = "free"
    /\ IF variable_id \notin DOMAIN variables_
       THEN /\ ret' = Returned(FALSE)
            /\ UNCHANGED variables_
       ELSE /\ variables_' = [variables_ EXCEPT ![variable_id] = metadata]
            /\ ret' = Returned(TRUE)
    /\ UNCHANGED << lifecycle_vars, event_queue_, armed, counter, reg_,
                    metrics_vars, now, handler_vars, producer_vars, s_pc,
                    consumer_vars, hist, cache_ >>

(***************************************************************************)
(* EventQueue::enqueue, one statement at a time (the producer thread)      *)
(***************************************************************************)
\* if (size_.load() >= capacity_) return false;
enqueue_check ==
    /\ h_pc = "enq_check"
    /\ IF size(event_queue_) >= event_queue_.capacity_
       THEN /\ p_ret' = FALSE
            /\ h_pc' = "enq_ret"
       ELSE /\ h_pc' = "enq_new"
            /\ UNCHANGED p_ret
    /\ UNCHANGED << lifecycle_vars, event_queue_, registry_vars, metrics_vars,
                    now, h_msgs, h_event, p_new_node, p_old_tail, s_pc,
                    consumer_vars, ret, hist, cache_ >>

\* new_node = new Node(); new_node->event = event; new_node->next = nullptr;
enqueue_new ==
    /\ h_pc = "enq_new"
    /\ CanAlloc(event_queue_)
    /\ LET n == FreshNode(event_queue_) IN
       /\ p_new_node' = n
       /\ event_queue_' = [event_queue_ EXCEPT
              !.heap[n] = [event |-> h_event, next |-> NULL, st |-> "live"]]
    /\ h_pc' = "enq_load_tail"
    /\ UNCHANGED << lifecycle_vars, registry_vars, metrics_vars, now, h_msgs,
                    h_event, p_old_tail, p_ret, s_pc, consumer_vars, ret,
                    hist, cache_ >>

\* Node* old_tail = tail_.load();
enqueue_load_tail ==
    /\ h_pc = "enq_load_tail"
    /\ p_old_tail' = event_queue_.tail_
    /\ h_pc' = "enq_store_tail"
    /\ UNCHANGED << lifecycle_vars, event_queue_, registry_vars, metrics_vars,
                    now, h_msgs, h_event, p_new_node, p_ret, s_pc,
                    consumer_vars, ret, hist, cache_ >>

\* tail_.store(new_node);
enqueue_store_tail ==
    /\ h_pc = "enq_store_tail"
    /\ event_queue_' = [event_queue_ EXCEPT !.tail_ = p_new_node]
    /\ h_pc' = "enq_link"
    /\ UNCHANGED << lifecycle_vars, registry_vars, metrics_vars, now, h_msgs,
                    h_event, producer_vars, s_pc, consumer_vars, ret, hist,
                    cache_ >>

\* old_tail->next = new_node;
enqueue_link ==
    /\ h_pc = "enq_link"
    /\ event_queue_' = [event_queue_ EXCEPT !.heap[p_old_tail].next = p_new_node]
    /\ h_pc' = "enq_inc"
    /\ UNCHANGED << lifecycle_vars, registry_vars, metrics_vars, now, h_msgs,
                    h_event, producer_vars, s_pc, consumer_vars, ret, hist,
                    cache_ >>

\* size_.fetch_add(1); return true;
enqueue_inc ==
    /\ h_pc = "enq_inc"
    /\ event_queue_' = [event_queue_ EXCEPT !.size_ = (@ + 1) % SizeMod]
    /\ p_ret' = TRUE
    /\ h_pc' = "enq_ret"
    /\ hist' = [hist EXCEPT !.enq_ok = Append(@, h_event)]
    /\ UNCHANGED << lifecycle_vars, registry_vars, metrics_vars, now, h_msgs,
                    h_event, p_new_node, p_old_tail, s_pc, consumer_vars,
                    ret, cache_ >>

(***************************************************************************)
(* EventQueue::dequeue, one statement at a time (the consumer thread)      *)
(***************************************************************************)
\* Node* old_head = head_.load();
dequeue_load_head ==
    /\ c_pc = "idle"
    /\ event_queue_.alloc
    /\ c_old_head' = event_queue_.head_
    /\ c_pc' = "deq_read_next"
    /\ UNCHANGED << lifecycle_vars, event_queue_, registry_vars, metrics_vars,
                    now, handler_vars, producer_vars, s_pc, c_next, c_event,
                    ret, hist, cache_ >>

\* Node* next = old_head->next; if (!next) return false;
dequeue_read_next ==
    /\ c_pc = "deq_read_next"
    /\ c_next' = event_queue_.heap[c_old_head].next
    /\ c_pc' = IF c_next' = NULL THEN "idle" ELSE "deq_copy"
    /\ UNCHANGED << lifecycle_vars, event_queue_, registry_vars, metrics_vars,
                    now, handler_vars, producer_vars, s_pc, c_old_head,
                    c_event, ret, hist, cache_ >>

\* dequeue that copies the event of old_head instead of next
dequeue_copy_old_head ==
    /\ c_pc = "deq_copy"
    /\ c_event' = event_queue_.heap[c_old_head].event
    /\ c_pc' = "deq_store_head"
    /\ UNCHANGED << lifecycle_vars, event_queue_, registry_vars, metrics_vars,
                    now, handler_vars, producer_vars, s_pc, c_old_head, c_next,
                    ret, hist, cache_ >>

\* event = next->event;
dequeue_copy ==
    /\ c_pc = "deq_copy"
    /\ c_event' = event_queue_.heap[c_next].event
    /\ c_pc' = "deq_store_head"
    /\ UNCHANGED << lifecycle_vars, event_queue_, registry_vars, metrics_vars,
                    now, handler_vars, producer_vars, s_pc, c_old_head, c_next,
                    ret, hist, cache_ >>

\* head_.store(next);
dequeue_store_head ==
    /\ c_pc = "deq_store_head"
    /\ event_queue_' = [event_queue_ EXCEPT !.head_ = c_next]
    /\ c_pc' = "deq_delete"
    /\ UNCHANGED << lifecycle_vars, registry_vars, metrics_vars, now,
                    handler_vars, producer_vars, s_pc, c_old_head, c_next,
                    c_event, ret, hist, cache_ >>

\* dequeue that deletes next, the new head, instead of old_head
dequeue_delete_next ==
    /\ c_pc = "deq_delete"
    /\ event_queue_' = [event_queue_ EXCEPT !.heap[c_next].st = "freed"]
    /\ c_pc' = "deq_dec"
    /\ UNCHANGED << lifecycle_vars, registry_vars, metrics_vars, now,
                    handler_vars, producer_vars, s_pc, c_old_head, c_next,
                    c_event, ret, hist, cache_ >>

\* delete old_head;
dequeue_delete ==
    /\ c_pc = "deq_delete"
    /\ event_queue_' = [event_queue_ EXCEPT !.heap[c_old_head].st = "freed"]
    /\ c_pc' = "deq_dec"
    /\ UNCHANGED << lifecycle_vars, registry_vars, metrics_vars, now,
                    handler_vars, producer_vars, s_pc, c_old_head, c_next,
                    c_event, ret, hist, cache_ >>

\* dequeue that returns true without size_.fetch_sub(1)
dequeue_dec_no_sub ==
    /\ c_pc = "deq_dec"
    /\ c_pc' = "idle"
    /\ hist' = [hist EXCEPT !.deq_ok = Append(@, c_event)]
    /\ UNCHANGED << lifecycle_vars, event_queue_, registry_vars, metrics_vars,
                    now, handler_vars, producer_vars, s_pc, c_old_head, c_next,
                    c_event, ret, cache_ >>

\* size_.fetch_sub(1); return true;
dequeue_dec ==
    /\ c_pc = "deq_dec"
    /\ event_queue_' = [event_queue_ EXCEPT
                           !.size_ = (@ + SizeMod - 1) % SizeMod]
    /\ c_pc' = "idle"
    /\ hist' = [hist EXCEPT !.deq_ok = Append(@, c_event)]
    /\ UNCHANGED << lifecycle_vars, registry_vars, metrics_vars, now,
                    handler_vars, producer_vars, s_pc, c_old_head, c_next,
                    c_event, ret, cache_ >>

(***************************************************************************)
(* Fast-path handler thread                                                *)
(***************************************************************************)
\* struct uffd_msg, as far as the handler reads it
Msgs == [event : {"pagefault"}, address : FaultAddrs, ptid : Tids]
          \cup [event : {"other"}, address : {0}, ptid : {0}]

\* the kernel reports page faults of registered ranges only
Deliverable(m) ==
    \/ m.event = "other"
    \/ \E r \in armed : r.start <= m.address /\ m.address < r.start + r.len

\* the batches one read() can return
Batches == UNION { [1 .. n -> Msgs] : n \in 1 .. MaxBatch }

\* while (true): the loop never tests running_
handlerLoop_while_forever ==
    /\ h_pc = "while"
    /\ h_pc' = "poll"
    /\ UNCHANGED << lifecycle_vars, event_queue_, registry_vars, metrics_vars,
                    now, h_msgs, h_event, producer_vars, s_pc, consumer_vars,
                    ret, hist, cache_ >>

\* while (running_)
handlerLoop_while ==
    /\ h_pc = "while"
    /\ h_pc' = IF running_ THEN "poll" ELSE "exited"
    /\ UNCHANGED << lifecycle_vars, event_queue_, registry_vars, metrics_vars,
                    now, h_msgs, h_event, producer_vars, s_pc, consumer_vars,
                    ret, hist, cache_ >>

\* poll(&pfd, 1, 100): ready is poll_ret > 0
handlerLoop_poll(ready) ==
    /\ h_pc = "poll"
    /\ h_pc' = IF ready THEN "read" ELSE "while"
    /\ UNCHANGED << lifecycle_vars, event_queue_, registry_vars, metrics_vars,
                    now, h_msgs, h_event, producer_vars, s_pc, consumer_vars,
                    ret, hist, cache_ >>

\* read(uffd_, msgs.data(), ...): batch is what was read, << >> for nread <= 0
handlerLoop_read(batch) ==
    /\ h_pc = "read"
    /\ hist.delivered + Len(batch) <= MaxFaults
    /\ \A i \in 1 .. Len(batch) : Deliverable(batch[i])
    /\ h_msgs' = batch
    /\ h_pc' = IF batch = << >> THEN "while" ELSE "for"
    /\ hist' = [hist EXCEPT !.delivered = @ + Len(batch),
                            !.read_paused = (batch # << >> /\ state_ = "PAUSED")]
    /\ UNCHANGED << lifecycle_vars, event_queue_, registry_vars, metrics_vars,
                    now, h_event, producer_vars, s_pc, consumer_vars, ret,
                    cache_ >>

\* for (i < num_msgs): if (msgs[i].event & UFFD_EVENT_PAGEFAULT) handlePageFault
handlerLoop_for ==
    /\ h_pc = "for"
    /\ IF h_msgs = << >>
       THEN /\ h_pc' = "while"
            /\ UNCHANGED h_msgs
       ELSE IF Head(h_msgs).event = "pagefault"
            THEN /\ h_pc' = "build"
                 /\ UNCHANGED h_msgs
            ELSE /\ h_pc' = "for"
                 /\ h_msgs' = Tail(h_msgs)
    /\ hist' = [hist EXCEPT !.read_paused = @ /\ h_pc' # "while"
                                               /\ h_msgs' # << >>]
    /\ UNCHANGED << lifecycle_vars, event_queue_, registry_vars, metrics_vars,
                    now, h_event, producer_vars, s_pc, consumer_vars, ret,
                    cache_ >>

\* the FastPathEvent handlePageFault builds from a message
BuildEvent(msg, clock, ip) ==
    [event_id |-> clock,
     ts_ns |-> clock * 1000000,
     page_base |-> msg.address - (msg.address % PAGE_SIZE),
     fault_addr |-> msg.address,
     tid |-> msg.ptid,
     ip |-> ip]

\* handlePageFault, up to the enqueue call; ip is what
\* extractInstructionPointer(tid) returns
handlePageFault_build(ip, clock) ==
    /\ h_pc = "build"
    /\ now' = clock
    /\ h_event' = BuildEvent(Head(h_msgs), clock, ip)
    /\ h_pc' = "enq_check"
    /\ UNCHANGED << lifecycle_vars, event_queue_, registry_vars, metrics_vars,
                    h_msgs, producer_vars, s_pc, consumer_vars, ret, hist,
                    cache_ >>

\* handlePageFault returns: the for loop moves to the next message
FaultHandled == /\ h_msgs' = Tail(h_msgs)
                /\ h_pc' = "for"
                /\ hist' = [hist EXCEPT !.handled = @ + 1,
                                        !.read_paused = @ /\ Len(h_msgs) > 1]

\* handlePageFault that returns when the enqueue was rejected
handlePageFault_count_returns ==
    /\ h_pc = "enq_ret"
    /\ IF ~p_ret
       THEN /\ events_dropped_' = events_dropped_ + 1
            /\ FaultHandled
            /\ UNCHANGED events_received_
       ELSE /\ events_received_' = events_received_ + 1
            /\ h_pc' = "unprotect"
            /\ UNCHANGED << events_dropped_, h_msgs, hist >>
    /\ UNCHANGED << lifecycle_vars, event_queue_, registry_vars,
                    events_processed_, now, h_event, producer_vars, s_pc,
                    consumer_vars, ret, cache_ >>

\* if (!event_queue_->enqueue(event)) events_dropped_++ else events_received_++
handlePageFault_count ==
    /\ h_pc = "enq_ret"
    /\ IF ~p_ret
       THEN /\ events_dropped_' = events_dropped_ + 1
            /\ UNCHANGED events_received_
       ELSE /\ events_received_' = events_received_ + 1
            /\ UNCHANGED events_dropped_
    /\ h_pc' = "unprotect"
    /\ UNCHANGED << lifecycle_vars, event_queue_, registry_vars,
                    events_processed_, now, h_msgs, h_event, producer_vars,
                    s_pc, consumer_vars, ret, hist, cache_ >>

\* ioctl(uffd_, UFFDIO_WRITEPROTECT, mode 0)
handlePageFault_unprotect(ioctl_ok) ==
    /\ h_pc = "unprotect"
    /\ IF ioctl_ok
       THEN /\ h_pc' = "reprotect"
            /\ UNCHANGED << events_dropped_, h_msgs, hist >>
       ELSE /\ events_dropped_' = events_dropped_ + 1
            /\ FaultHandled
    /\ UNCHANGED << lifecycle_vars, event_queue_, registry_vars,
                    events_received_, events_processed_, now, h_event,
                    producer_vars, s_pc, consumer_vars, ret, cache_ >>

\* ioctl(uffd_, UFFDIO_WRITEPROTECT, UFFDIO_WRITEPROTECT_MODE_WP)
handlePageFault_reprotect(ioctl_ok) ==
    /\ h_pc = "reprotect"
    /\ events_dropped_' = IF ioctl_ok THEN events_dropped_
                          ELSE events_dropped_ + 1
    /\ FaultHandled
    /\ UNCHANGED << lifecycle_vars, event_queue_, registry_vars,
                    events_received_, events_processed_, now, h_event,
                    producer_vars, s_pc, consumer_vars, ret, cache_ >>

\* a step of the handler thread
handlerThread ==
    \/ handlerLoop_while
    \/ \E r \in BOOLEAN : handlerLoop_poll(r)
    \/ \E b \in Batches \cup {<< >>} : handlerLoop_read(b)
    \/ handlerLoop_for
    \/ \E ip \in Ips, t \in ClockReadings : handlePageFault_build(ip, t)
    \/ enqueue_check
    \/ enqueue_new
    \/ enqueue_load_tail
    \/ enqueue_store_tail
    \/ enqueue_link
    \/ enqueue_inc
    \/ handlePageFault_count
    \/ \E ok \in BOOLEAN : handlePageFault_unprotect(ok)
    \/ \E ok \in BOOLEAN : handlePageFault_reprotect(ok)

(***************************************************************************)
(* Enrichment thread                                                       *)
(***************************************************************************)
\* slowPathLoop: while (running_) sleep_for(10 ms);
slowPathLoop ==
    /\ s_pc = "while"
    /\ s_pc' = IF running_ THEN "while" ELSE "exited"
    /\ UNCHANGED << lifecycle_vars, event_queue_, registry_vars, metrics_vars,
                    now, handler_vars, producer_vars, consumer_vars, ret,
                    hist, cache_ >>

(***************************************************************************)
(* The program                                                             *)
(***************************************************************************)
Next ==
    \/ \E c \in Capacities, o \in {"ok", "syscall_fails", "ioctl_fails"} :
          initialize("/tmp/x", c, o)
    \/ start
    \/ pause
    \/ resume
    \/ \E t \in Timeouts : stop_enter(t)
    \/ stop_wait
    \/ stop_detach
    \/ \E b \in PageBases, sz \in PageSizes, ok \in BOOLEAN, t \in ClockReadings :
          registerPage(b, sz, "v", 1, [full_page |-> TRUE, byte_range |-> 0], ok, t)
    \/ \E id \in VariableIds : unregisterPage(id)
    \/ handlerLoop_while
    \/ \E r \in BOOLEAN : handlerLoop_poll(r)
    \/ \E b \in Batches \cup {<< >>} : handlerLoop_read(b)
    \/ handlerLoop_for
    \/ \E ip \in Ips, t \in ClockReadings : handlePageFault_build(ip, t)
    \/ enqueue_check
    \/ enqueue_new
    \/ enqueue_load_tail
    \/ enqueue_store_tail
    \/ enqueue_link
    \/ enqueue_inc
    \/ handlePageFault_count
    \/ \E ok \in BOOLEAN : handlePageFault_unprotect(ok)
    \/ \E ok \in BOOLEAN : handlePageFault_reprotect(ok)
    \/ slowPathLoop

Spec == Init /\ [][Next]_vars

\* the program with both worker threads scheduled fairly: a thread that can
\* take a step eventually takes one (poll returns after 100 ms at the latest,
\* sleep_for after 10 ms)
SpecFair == Spec /\ WF_vars(handlerThread) /\ WF_vars(slowPathLoop)

(***************************************************************************)
(* The event queue with one producer and one consumer                      *)
(***************************************************************************)
\* the events the stand-alone producer enqueues
QEvents == { BuildEvent([event |-> "pagefault", address |-> a, ptid |-> 7], 0, 0) :
                a \in {4096 + 128, 8192} }

InitQ ==
    /\ \E c \in QCapacities : event_queue_ = EventQueue(c)
    /\ h_pc = "q_idle"
    /\ state_ = "INITIALIZED"
    /\ state_mutex_ = "free"
    /\ error_message_ = ""
    /\ output_dir_ = ""
    /\ variables_ = NoVariables
    /\ uffd_ = 3
    /\ armed = {}
    /\ handler_thread_ = FALSE
    /\ slow_path_thread_ = FALSE
    /\ running_ = FALSE
    /\ events_received_ = 0
    /\ events_processed_ = 0
    /\ events_dropped_ = 0
    /\ counter = 0
    /\ reg_ = NoReg
    /\ now = 0
    /\ stop_ = NoStop
    /\ h_msgs = << >>
    /\ h_event = NoEvent
    /\ p_new_node = NULL
    /\ p_old_tail = NULL
    /\ p_ret = FALSE
    /\ s_pc = "none"
    /\ c_pc = "idle"
    /\ c_old_head = NULL
    /\ c_next = NULL
    /\ c_event = NoEvent
    /\ ret = NoCall
    /\ cache_ = NoCache
    /\ hist = NoHist

\* the producer calls enqueue(event)
producer_call(event) ==
    /\ h_pc = "q_idle"
    /\ hist.calls < MaxOps
    /\ h_event' = event
    /\ h_pc' = "enq_check"
    /\ hist' = [hist EXCEPT !.calls = @ + 1]
    /\ UNCHANGED << lifecycle_vars, event_queue_, registry_vars, metrics_vars,
                    now, h_msgs, producer_vars, s_pc, consumer_vars, ret,
                    cache_ >>

\* enqueue has returned to the producer
producer_return ==
    /\ h_pc = "enq_ret"
    /\ h_pc' = "q_idle"
    /\ UNCHANGED << lifecycle_vars, event_queue_, registry_vars, metrics_vars,
                    now, h_msgs, h_event, producer_vars, s_pc, consumer_vars,
                    ret, hist, cache_ >>

NextQ ==
    \/ \E e \in QEvents : producer_call(e)
    \/ producer_return
    \/ enqueue_check
    \/ enqueue_new
    \/ enqueue_load_tail
    \/ enqueue_store_tail
    \/ enqueue_link
    \/ enqueue_inc
    \/ dequeue_load_head
    \/ dequeue_read_next
    \/ dequeue_copy
    \/ dequeue_store_head
    \/ dequeue_delete
    \/ dequeue_dec

SpecQ == InitQ /\ [][NextQ]_vars

(***************************************************************************)
(* The registry under the host's calls                                     *)
(***************************************************************************)
\* (page_base, page_size) arguments passed to registerPage: a null base, a
\* page, and a base inside a page with a length short of a page
Pages == { << 0, 4096 >>, << 4096, 4096 >>, << 4100, 100 >> }

\* the (page_base, page_size) arguments of SpecV: a null base and a page
PagesV == { << 0, 4096 >>, << 4096, 4096 >> }

\* snapshot arguments passed to writeSnapshot
Snapshots == { [len |-> 4096, fill |-> 66], [len |-> 100, fill |-> 66] }

\* a VariableMetadata the caller builds from scratch
OtherMetadata == [variable_id |-> << "other" >>,
                  page_base |-> 8192,
                  page_size |-> 4096,
                  name |-> "w",
                  flags |-> 2,
                  mutation_depth |-> [full_page |-> FALSE, byte_range |-> 8],
                  initial_snapshot |-> [len |-> 8, fill |-> 67],
                  registered_at |-> 0]

\* metadata arguments passed to updateMetadata
Metadatas == {OtherMetadata}

\* ids a caller passes: the ones registerPage has returned, and "no-such"
CallerIds == hist.ids \cup { << "no-such" >> }

\* the host's lifecycle calls
Lifecycle ==
    \/ \E c \in Capacities, o \in {"ok", "syscall_fails", "ioctl_fails"} :
          initialize("/tmp/x", c, o)
    \/ start
    \/ pause
    \/ resume
    \/ \E t \in Timeouts : stop_enter(t)
    \/ stop_wait
    \/ stop_detach

\* the host's registerPage calls on the given pages, at most max of them
\* reaching the id generator
Registration(pages, max) ==
    \/ /\ counter < max
       /\ \E p \in pages, t \in ClockReadings :
             registerPage_enter(p[1], p[2], "v", 1,
                                [full_page |-> TRUE, byte_range |-> 0], t)
    \/ \E ok \in BOOLEAN : registerPage_arm(ok)
    \/ \E t \in ClockReadings : registerPage_insert(t)

NextR ==
    \/ Lifecycle
    \/ Registration(Pages, MaxRegs)
    \/ \E id \in CallerIds : unregisterPage(id)

SpecR == Init /\ [][NextR]_vars

(***************************************************************************)
(* The descriptors of the registry                                         *)
(***************************************************************************)
NextV ==
    \/ \E c \in Capacities : initialize("/tmp/x", c, "ok")
    \/ start
    \/ Registration(PagesV, MaxRegsV)
    \/ \E id \in CallerIds : unregisterPage(id)
    \/ \E id \in CallerIds, b \in Snapshots : writeSnapshot(id, b)
    \/ \E id \in CallerIds, m \in Metadatas : updateMetadata(id, m)

SpecV == Init /\ [][NextV]_vars

(***************************************************************************)
(* SymbolCache                                                             *)
(***************************************************************************)
TTL_SECONDS == 3600

\* std::chrono::duration_cast<std::chrono::seconds>: truncation toward zero
duration_cast_seconds(d) ==
    IF d >= 0 THEN d \div TicksPerSecond ELSE -((-d) \div TicksPerSecond)

\* instruction pointers looked up
CacheIps == {16, 32}
\* symbol, file and line of an instruction pointer
Symbols == { [symbol |-> "f", file |-> "a.c", line |-> 1],
             [symbol |-> "g", file |-> "b.c", line |-> 2] }
\* readings of the clock: the start, the TTL later, one step after that
\* and one second after the TTL
CacheTimes == { 0, 1,
                TTL_SECONDS * TicksPerSecond,
                TTL_SECONDS * TicksPerSecond + 1,
                (TTL_SECONDS + 1) * TicksPerSecond }
\* the clock does not go back
CacheReadings == { t \in CacheTimes : t >= now }

Entry(symbol, file, line, timestamp) ==
    [symbol |-> symbol, file |-> file, line |-> line, timestamp |-> timestamp]

\* what get hands back through symbol, file and line
Found(e) == [ok |-> TRUE, id |-> << e.symbol, e.file, e.line >>]

cache_vars == << lifecycle_vars, event_queue_, registry_vars, metrics_vars,
                handler_vars, producer_vars, s_pc, consumer_vars >>

\* get that hands back an entry of any age
SymbolCache_get_no_ttl(ip, clock) ==
    /\ ret' = IF ip \in DOMAIN cache_ THEN Found(cache_[ip])
              ELSE Returned(FALSE)
    /\ now' = IF ip \in DOMAIN cache_ THEN clock ELSE now
    /\ UNCHANGED << cache_vars, cache_, hist >>

\* SymbolCache::get(ip, symbol, file, line)
SymbolCache_get(ip, clock) ==
    IF ip \notin DOMAIN cache_
    THEN /\ ret' = Returned(FALSE)
         /\ UNCHANGED << cache_vars, cache_, now, hist >>
    ELSE LET age == duration_cast_seconds(clock - cache_[ip].timestamp) IN
         /\ now' = clock
         /\ IF age > TTL_SECONDS
            THEN /\ cache_' = [i \in DOMAIN cache_ \ {ip} |-> cache_[i]]
                 /\ ret' = Returned(FALSE)
            ELSE /\ cache_' = cache_
                 /\ ret' = Found(cache_[ip])
         /\ UNCHANGED << cache_vars, hist >>

\* SymbolCache::set(ip, symbol, file, line)
SymbolCache_set(ip, symbol, file, line, clock) ==
    /\ now' = clock
    /\ cache_' = [i \in DOMAIN cache_ \cup {ip} |->
                    IF i = ip THEN Entry(symbol, file, line, clock)
                    ELSE cache_[i]]
    /\ hist' = [hist EXCEPT !.sets =
                    [i \in DOMAIN hist.sets \cup {ip} |->
                        IF i = ip THEN Entry(symbol, file, line, clock)
                        ELSE hist.sets[i]]]
    /\ ret' = NoCall
    /\ UNCHANGED cache_vars

\* SymbolCache::clear()
SymbolCache_clear ==
    /\ cache_' = NoCache
    /\ hist' = [hist EXCEPT !.sets = << >>]
    /\ ret' = NoCall
    /\ UNCHANGED << cache_vars, now >>

NextC ==
    \/ \E ip \in CacheIps, t \in CacheReadings : SymbolCache_get(ip, t)
    \/ \E ip \in CacheIps, e \in Symbols, t \in CacheReadings :
           SymbolCache_set(ip, e.symbol, e.file, e.line, t)
    \/ SymbolCache_clear

SpecC == Init /\ [][NextC]_vars

(***************************************************************************)
(* Steps of the API, named for the properties below                        *)
(***************************************************************************)
InitializeCall ==
    \E c \in Capacities, o \in {"ok", "syscall_fails", "ioctl_fails"} :
        initialize("/tmp/x", c, o)
InitializeOpens == \E c \in Capacities : initialize("/tmp/x", c, "ok")
StopEnters == \E t \in Timeouts : stop_enter(t)

(***************************************************************************)
(* C1  Every change of the core state is a row of the transition table.    *)
(***************************************************************************)
TableRow ==
    \/ /\ state_ = "UNINITIALIZED" /\ state_' \in {"INITIALIZED", "ERROR"}
       /\ InitializeCall
    \/ /\ state_ = "INITIALIZED" /\ state_' = "RUNNING" /\ start
    \/ /\ state_ = "RUNNING" /\ state_' = "PAUSED" /\ pause
    \/ /\ state_ = "PAUSED" /\ state_' = "RUNNING" /\ resume
    \/ /\ state_ \in {"RUNNING", "PAUSED"} /\ state_' = "STOPPED" /\ StopEnters

C2_LegalCallsSucceed ==
    [][ /\ (InitializeOpens /\ state_ = "UNINITIALIZED")
             => (ret'.ok /\ getState' = "INITIALIZED")
        /\ (start /\ state_ = "INITIALIZED")
             => (ret'.ok /\ getState' = "RUNNING")
        /\ (pause /\ state_ = "RUNNING")
             => (ret'.ok /\ getState' = "PAUSED")
        /\ (resume /\ state_ = "PAUSED")
             => (ret'.ok /\ getState' = "RUNNING")
        /\ (StopEnters /\ state_ \in {"RUNNING", "PAUSED"})
             => (getState' = "STOPPED" /\ state_mutex_' = "stop")
        /\ (stop_detach /\ stop_.from \in {"RUNNING", "PAUSED"})
             => (ret'.ok /\ getState' = "STOPPED") ]_vars

\* the whole legal cycle has run: a stop that found PAUSED or RUNNING has
\* returned true
C2_Witness ==
    /\ state_ = "STOPPED"
    /\ state_mutex_ = "free"
    /\ stop_.from \in {"RUNNING", "PAUSED"}
    /\ ret.ok
    /\ error_message_ = ""

(***************************************************************************)
(* C3  A lifecycle call that is illegal in the current state returns false *)
(*     and has no side effect.                                             *)
(***************************************************************************)
NoSideEffect ==
    /\ ~ret'.ok
    /\ UNCHANGED << state_, running_, event_queue_, variables_, metrics_vars >>

\* C3: initialize outside UNINITIALIZED ("Core already initialized"), start
\* outside INITIALIZED ("Core not initialized", which contains "not
\* initialized"), pause outside RUNNING and resume outside PAUSED return
\* false and leave state, running flag, queue, registry and counters alone
C3_IllegalCallsRejected ==
    [][ /\ (InitializeCall /\ state_ # "UNINITIALIZED")
             => (NoSideEffect /\ getErrorMessage' = "Core already initialized")
        /\ (start /\ state_ # "INITIALIZED")
             => (NoSideEffect /\ getErrorMessage' = "Core not initialized")
        /\ (pause /\ state_ # "RUNNING") => NoSideEffect
        /\ (resume /\ state_ # "PAUSED") => NoSideEffect ]_vars

\* start was rejected in UNINITIALIZED (scenario S6)
C3_Witness ==
    /\ state_ = "UNINITIALIZED"
    /\ error_message_ = "Core not initialized"
    /\ ~ret.ok

(***************************************************************************)
(* C4  stop from STOPPED returns true and changes nothing.                 *)
(***************************************************************************)
\* C4: a stop call that finds STOPPED returns true, leaves the state
\* STOPPED, the running flag false and both thread handles untouched,
\* whatever its timeout
C4_StopIdempotent ==
    [][ \A t \in Timeouts :
          (stop_enter(t) /\ state_ = "STOPPED")
             => /\ ret'.ok
                /\ state_' = "STOPPED"
                /\ running_' = FALSE
                /\ state_mutex_' = "free"
                /\ UNCHANGED << handler_thread_, slow_path_thread_ >> ]_vars

\* a stop call that found STOPPED has returned, after the threads ran
C4_Witness ==
    /\ stop_.pc = "idle"
    /\ stop_.from = "STOPPED"
    /\ state_ = "STOPPED"
    /\ h_pc # "none"

(***************************************************************************)
(* C5  ERROR is terminal.                                                  *)
(***************************************************************************)
\* C5: once state_ is ERROR no step changes it
C5_ErrorTerminal == [][state_ = "ERROR" => state_' = "ERROR"]_vars

\* calls were made after the core entered ERROR: a start was rejected and a
\* stop returned false
C5_Witness ==
    /\ state_ = "ERROR"
    /\ error_message_ = "Core not initialized"
    /\ stop_.from = "ERROR"

(***************************************************************************)
(* C6  In ERROR, getErrorMessage keeps the message of the failure.         *)
(***************************************************************************)
\* C6 as claimed: the step into ERROR sets the failure's message, and while
\* the state is ERROR no step changes what getErrorMessage returns
\* (violated: a later rejected initialize/start/pause/resume overwrites it)
C6_FirstErrorKept ==
    [][ /\ (state_ # "ERROR" /\ state_' = "ERROR")
             => getErrorMessage' \in {"Failed to create userfaultfd",
                                      "Failed to configure userfaultfd"}
        /\ (state_ = "ERROR")
             => getErrorMessage' = getErrorMessage ]_vars

(***************************************************************************)
(* C7  The reported queue depth never exceeds the capacity.                *)
(***************************************************************************)
\* C7 as claimed: in every state of an enqueue interleaved with a dequeue the
\* depth size() reports, as getMetrics surfaces it, is at most capacity_, and
\* an enqueue that finds depth = capacity returns false
\* (violated: a dequeue can take a linked node and decrement size_ before the
\* enqueue that linked it has incremented size_; 0 - 1 wraps)
C7_QueueBound ==
    /\ [](/\ size(event_queue_) <= event_queue_.capacity_
          /\ getMetrics.queue_depth <= event_queue_.capacity_)
    /\ [][(enqueue_check /\ size(event_queue_) = event_queue_.capacity_)
             => (~p_ret' /\ h_pc' = "enq_ret")]_vars

(***************************************************************************)
(* C8  Each fault record counts once, as received or as dropped.           *)
(***************************************************************************)
\* the handler is not inside handlePageFault
BetweenRecords == h_pc \in {"none", "while", "poll", "read", "for", "exited"}

Min(a, b) == IF a <= b THEN a ELSE b

\* C8 as claimed: between records events_received + events_dropped is the
\* number of records handled, whatever the unprotect and re-protect calls
\* returned; without dequeues events_received = min(n, c)
\* (violated: a failing UFFDIO_WRITEPROTECT adds a second count to a record)
C8_FaultAccounting ==
    BetweenRecords =>
        /\ events_received_ + events_dropped_ = hist.handled
        /\ events_received_ = Min(hist.handled, event_queue_.capacity_)
        /\ events_dropped_ =
              hist.handled - Min(hist.handled, event_queue_.capacity_)

(***************************************************************************)
(* C9  FIFO with tail-drop.                                                *)
(***************************************************************************)
IsPrefix(a, b) == Len(a) <= Len(b) /\ SubSeq(b, 1, Len(a)) = a

\* the enqueue in progress has passed the capacity test and will return true
EnqueueAccepted ==
    h_pc \in {"enq_new", "enq_load_tail", "enq_store_tail", "enq_link", "enq_inc"}

\* the events whose enqueue has returned or will return true, in call order
AcceptedEvents ==
    hist.enq_ok \o (IF EnqueueAccepted THEN << h_event >> ELSE << >>)

\* C9: the events successful dequeues returned are a prefix of the events
\* whose enqueue returned true, in the same order; with no call in progress
\* the accepted events are exactly the dequeued ones followed by the queued
\* ones (none lost or duplicated); a rejected enqueue leaves the queue as it was
C9_FifoTailDrop ==
    /\ [](/\ IsPrefix(hist.deq_ok, AcceptedEvents)
          /\ (~EnqueueAccepted /\ c_pc = "idle")
                => hist.enq_ok = hist.deq_ok \o Contents(event_queue_))
    /\ [][(enqueue_check /\ ~p_ret' /\ h_pc' = "enq_ret")
             => (event_queue_' = event_queue_ /\ hist' = hist)]_vars

\* two different events came out in order, and an enqueue was rejected
C9_Witness ==
    /\ Len(hist.deq_ok) >= 2
    /\ hist.deq_ok[1] # hist.deq_ok[2]
    /\ h_pc = "q_idle"
    /\ c_pc = "idle"
    /\ hist.calls > Len(hist.enq_ok)

(***************************************************************************)
(* C10  While PAUSED, fault records are resolved but not enqueued.         *)
(***************************************************************************)
\* C10 as claimed: while the state is PAUSED, handling a record that was
\* read in PAUSED goes on to the unprotect call, leaves the queue contents
\* and events_received unchanged and counts the record as dropped
\* (violated: the handler never looks at state_ and enqueues as in RUNNING)
C10_PausedNotEnqueued ==
    [][(hist.read_paused /\ state_ = "PAUSED" /\ state_' = "PAUSED")
          => /\ Contents(event_queue_') = Contents(event_queue_)
             /\ events_received_' = events_received_
             /\ handlePageFault_count
                   => (h_pc' = "unprotect"
                       /\ events_dropped_' = events_dropped_ + 1)]_vars

(***************************************************************************)
(* Registration and the fault channel                                      *)
(***************************************************************************)
\* the range of a descriptor
RangeOf(meta) == Range(meta.page_base, meta.page_size)

\* C11: when start returns true, every descriptor inserted before the call
\* has its range armed on the fault channel
C11_StartArmsRegistered ==
    [][start /\ state_ = "INITIALIZED"
          => \A id \in DOMAIN variables_ :
                KernelAccepts(variables_[id].page_base, variables_[id].page_size)
                   => RangeOf(variables_[id]) \in armed']_vars

\* C12: a registerPage call that overlaps a lifecycle call and returns an id
\* once that call has returned, with the state RUNNING or PAUSED, leaves the
\* descriptor's range armed
C12_RegisteredIsArmed ==
    [][((\E t \in ClockReadings : registerPage_insert(t))
          /\ ret'.ok
          /\ state_mutex_ = "free"
          /\ state_ \in {"RUNNING", "PAUSED"}
          /\ KernelAccepts(reg_.page_base, reg_.page_size))
       => Range(reg_.page_base, reg_.page_size) \in armed']_vars

\* C13: a registerPage call whose arming fails in RUNNING or PAUSED returns
\* the empty id, and the registry is as it was before the call
C13_RegisterRollback ==
    [][/\ (reg_.pc = "arm" /\ reg_'.pc = "idle"
              /\ state_ \in {"RUNNING", "PAUSED"})
          => (ret' = [ok |-> FALSE, id |-> NoId] /\ variables_' = variables_)
       /\ (reg_'.pc # "idle") => (variables_' = variables_)]_vars

\* a registerPage call has failed at arming in RUNNING, the registry empty
C13_Witness ==
    /\ state_ = "RUNNING"
    /\ reg_.pc = "idle"
    /\ counter = 1
    /\ hist.ids = {}
    /\ error_message_ = ""
    /\ variables_ = NoVariables
    /\ ret = [ok |-> FALSE, id |-> NoId]

\* a base aligned to the page size and a length that is a positive multiple
\* of it
ValidPage(page_base, page_size) ==
    /\ page_base % PAGE_SIZE = 0
    /\ page_size > 0
    /\ page_size % PAGE_SIZE = 0

\* C14: a registerPage call with an unaligned base or a length that is not a
\* positive multiple of the page size returns the empty id and inserts
\* nothing, in every state
C14_RegisterValidation ==
    [][(reg_.pc # "idle" /\ reg_'.pc = "idle"
           /\ ~ValidPage(reg_.page_base, reg_.page_size))
       => (ret' = [ok |-> FALSE, id |-> NoId] /\ variables_' = variables_)]_vars

\* C18: a descriptor removed while the state is RUNNING or PAUSED has its
\* range disarmed
C18_UnregisterDisarms ==
    [][(state_ \in {"RUNNING", "PAUSED"})
       => (\A id \in (DOMAIN variables_) \ (DOMAIN variables_') :
              ~(RangeOf(variables_[id]) \in armed'))]_vars

(***************************************************************************)
(* The descriptors: pre-images, metadata, ids                              *)
(***************************************************************************)
\* C15: the stored pre-image of every descriptor is as long as the
\* descriptor's range
C15_PreImageLength ==
    \A id \in DOMAIN variables_ :
       variables_[id].initial_snapshot.len = variables_[id].page_size

\* C16: unregisterPage(id) returns true exactly when id is in the registry;
\* it removes that descriptor and no other, leaves the others unchanged, and
\* a removed id never comes back; when it returns false the registry is
\* unchanged
C16_Unregister ==
    [][/\ \A id \in CallerIds :
             unregisterPage(id)
                => /\ ret'.ok = (id \in DOMAIN variables_)
                   /\ id \notin DOMAIN variables_'
                   /\ (id \notin DOMAIN variables_) => (variables_' = variables_)
       /\ LET gone == (DOMAIN variables_) \ (DOMAIN variables_')
          IN  (gone # {})
                 => /\ Cardinality(gone) = 1
                    /\ Cardinality(DOMAIN variables_') =
                          Cardinality(DOMAIN variables_) - 1
                    /\ ret' = Returned(TRUE)
                    /\ \A o \in DOMAIN variables_' :
                          o \in DOMAIN variables_ /\ variables_'[o] = variables_[o]
       /\ \A id \in hist.ids \ (DOMAIN variables_) :
             id \notin DOMAIN variables_']_vars

\* one of two descriptors has been removed, the other is still registered
C16_Witness ==
    /\ Cardinality(hist.ids) = 2
    /\ Cardinality(DOMAIN variables_) = 1
    /\ variables_mutex_ = "free"
    /\ ret = Returned(TRUE)

\* C17 as stated: readSnapshot(id) returns the bytes copied at registration
\* until a writeSnapshot(id, b) succeeds, then the bytes b of the last one;
\* no other call changes it; for an unknown id it returns no bytes
C17_SnapshotRoundTrip ==
    [][\A id \in hist'.ids \cup { << "no-such" >> } :
          IF id \notin DOMAIN variables_'
          THEN readSnapshot(id)' = NoBytes
          ELSE IF id \notin DOMAIN variables_
          THEN readSnapshot(id)' = PageBytes(reg_.page_base, reg_.page_size)
          ELSE IF \E b \in Snapshots : writeSnapshot(id, b)
          THEN \E b \in Snapshots : writeSnapshot(id, b) /\ readSnapshot(id)' = b
          ELSE readSnapshot(id)' = readSnapshot(id)]_vars

\* C17 amended: readSnapshot(id) returns the pre-image stored last, by the
\* registration, by a successful writeSnapshot(id, b) or by a successful
\* updateMetadata(id, m); a call on another id does not change it; for an
\* unknown id it returns no bytes
C17_SnapshotRoundTripUpdate ==
    [][\A id \in hist'.ids \cup { << "no-such" >> } :
          IF id \notin DOMAIN variables_'
          THEN readSnapshot(id)' = NoBytes
          ELSE IF id \notin DOMAIN variables_
          THEN readSnapshot(id)' = PageBytes(reg_.page_base, reg_.page_size)
          ELSE IF \E b \in Snapshots : writeSnapshot(id, b)
          THEN \E b \in Snapshots : writeSnapshot(id, b) /\ readSnapshot(id)' = b
          ELSE IF \E m \in Metadatas : updateMetadata(id, m)
          THEN \E m \in Metadatas :
                  updateMetadata(id, m) /\ readSnapshot(id)' = m.initial_snapshot
          ELSE readSnapshot(id)' = readSnapshot(id)]_vars

\* two descriptors: one holds bytes written by writeSnapshot, the other the
\* pre-image an updateMetadata carried
C17_Witness ==
    \E a, b \in DOMAIN variables_ :
       /\ a # b
       /\ readSnapshot(a) \in Snapshots
       /\ readSnapshot(b) = OtherMetadata.initial_snapshot

\* C19: a successful updateMetadata(id, m) leaves the descriptor's
\* variable_id and registered_at as they were
C19_UpdateKeepsIdentity ==
    [][\A id \in DOMAIN variables_ :
          (\E m \in Metadatas : updateMetadata(id, m))
             => /\ variables_'[id].variable_id = variables_[id].variable_id
                /\ variables_'[id].registered_at = variables_[id].registered_at]_vars

\* C20: an id registerPage returns was never returned before and names no
\* descriptor of the registry
C20_IdsUnique ==
    [][(reg_.pc = "snapshot" /\ reg_'.pc = "idle" /\ ret'.ok)
       => /\ ret'.id # NoId
          /\ ret'.id \notin hist.ids
          /\ ret'.id \notin DOMAIN variables_
          /\ hist'.ids = hist.ids \cup {ret'.id}]_vars

\* two ids returned at the same clock reading: the first is no longer in the
\* registry, the second names a descriptor of the page at 4096
C20_Witness ==
    \E a, b \in hist.ids :
       /\ a # b
       /\ a[2] = b[2]
       /\ a \notin DOMAIN variables_
       /\ b \in DOMAIN variables_
       /\ variables_[b].page_base = 4096
       /\ counter = MaxRegsV

(***************************************************************************)
(* Stopping                                                                *)
(***************************************************************************)
\* C21: when stop returns true from RUNNING or PAUSED the running flag is
\* false, no range is armed and the fault channel is closed
C21_StopReleasesChannel ==
    [][(stop_detach /\ stop_.from \in {"RUNNING", "PAUSED"})
       => (~running_' /\ armed' = {} /\ uffd_' = -1)]_vars

\* a stop call that took the core out of RUNNING or PAUSED has returned
StopReturned ==
    /\ state_ = "STOPPED"
    /\ stop_.pc = "idle"
    /\ stop_.from \in {"RUNNING", "PAUSED"}

\* C23: after stop has returned the handler enqueues nothing and changes
\* neither events_received nor events_dropped
C23_NoActivityAfterStop ==
    [][StopReturned
       => UNCHANGED << event_queue_, events_received_, events_dropped_ >>]_vars

\* C25: no id has been returned and the registry is empty as long as the
\* state is UNINITIALIZED
C25_RegisterBeforeInitialize ==
    (state_ = "UNINITIALIZED") => (hist.ids = {} /\ variables_ = NoVariables)

\* C27: when no lifecycle call holds state_mutex_, running_ is true exactly
\* when the state is RUNNING or PAUSED
C27_RunningTracksState ==
    (state_mutex_ = "free") => (running_ <=> state_ \in {"RUNNING", "PAUSED"})

\* the core is PAUSED with running_ set and no lifecycle call in progress
C27_Witness ==
    /\ state_ = "PAUSED"
    /\ state_mutex_ = "free"
    /\ running_
    /\ h_pc = "poll"

\* C28: the UFFDIO_REGISTER ioctl of registerPage is issued with the registry
\* mutex released
C28_MutexNotHeldAcrossIoctl ==
    [][((\E ok \in BOOLEAN : registerPage_arm(ok))
           /\ state_ \in {"RUNNING", "PAUSED"})
       => (variables_mutex_ = "free")]_vars

\* C30: an event the handler builds does not carry the event_id of the event
\* it built before
C30_EventIdsUnique ==
    [][(h_pc = "build" /\ h_pc' = "enq_check" /\ h_event # NoEvent)
       => (h_event'.event_id # h_event.event_id)]_vars

(***************************************************************************)
(* The handler and the faulting writer                                     *)
(***************************************************************************)
\* handlePageFault is between its first statement and the unprotect ioctl
BeforeUnprotect ==
    h_pc \in {"build", "enq_check", "enq_new", "enq_load_tail",
              "enq_store_tail", "enq_link", "enq_inc", "enq_ret"}

\* C26: from the first statement of handlePageFault the handler reaches the
\* unprotect ioctl whether enqueue accepted or rejected the event, and it
\* always has a step to take on the way: it waits for nothing
C26_WriterUnblocked ==
    /\ []((BeforeUnprotect \/ h_pc = "unprotect") => ENABLED handlerThread)
    /\ [][(BeforeUnprotect /\ h_pc' # h_pc)
          => (BeforeUnprotect' \/ h_pc' = "unprotect")]_vars

\* the queue was full, enqueue rejected the event, and the handler is at the
\* unprotect ioctl
C26_Witness ==
    /\ h_pc = "unprotect"
    /\ ~p_ret
    /\ events_dropped_ >= 1
    /\ size(event_queue_) >= event_queue_.capacity_

(***************************************************************************)
(* The worker threads under fair scheduling                                *)
(***************************************************************************)
\* C22: once stop has cleared running_, the handler loop and the enrichment
\* loop both terminate
C22_CooperativeCancellation ==
    (state_ = "STOPPED" /\ ~running_ /\ h_pc # "none")
       ~> (h_pc = "exited" /\ s_pc = "exited")

\* both loops have exited after a stop that interrupted the handling of a
\* fault record
C22_Witness ==
    /\ state_ = "STOPPED"
    /\ h_pc = "exited"
    /\ s_pc = "exited"
    /\ hist.handled >= 1

\* dequeueEvent(): the value returned
dequeueEvent == NULL

\* C24: while the state stays RUNNING, an event that enqueue accepted is
\* eventually counted in events_processed and returned by dequeueEvent
C24_EnrichmentProgress ==
    (Len(hist.enq_ok) >= 1)
       ~> ((events_processed_ >= 1 /\ dequeueEvent # NULL) \/ state_ # "RUNNING")

(***************************************************************************)
(* The symbol cache                                                        *)
(***************************************************************************)
\* C29: get returns an entry only if ip was set since the last clear and the
\* latest set is at most TTL_SECONDS old, and then exactly what that set
\* stored; a get that finds an entry older than TTL_SECONDS returns a miss
\* and removes the entry; clear removes every entry
C29_SymbolCacheTtl ==
    /\ [][\A ip \in CacheIps, t \in CacheReadings :
            SymbolCache_get(ip, t) =>
              /\ ret'.ok =>
                    /\ ip \in DOMAIN hist.sets
                    /\ t - hist.sets[ip].timestamp
                          <= TTL_SECONDS * TicksPerSecond
                    /\ ret' = Found(hist.sets[ip])
              /\ (/\ ip \in DOMAIN cache_
                  /\ t - cache_[ip].timestamp > TTL_SECONDS * TicksPerSecond)
                    => (~ret'.ok /\ ip \notin DOMAIN cache_')]_vars
    /\ [][SymbolCache_clear => cache_' = NoCache]_vars

\* C29, with the age counted in whole seconds as get counts it: get returns
\* an entry only if ip was set since the last clear and the whole seconds
\* since the latest set are at most TTL_SECONDS, and then exactly what that
\* set stored; a get that finds an entry with more whole seconds than
\* TTL_SECONDS returns a miss and removes the entry; clear removes every
\* entry
C29_SymbolCacheTtlWholeSeconds ==
    /\ [][\A ip \in CacheIps, t \in CacheReadings :
            SymbolCache_get(ip, t) =>
              /\ ret'.ok =>
                    /\ ip \in DOMAIN hist.sets
                    /\ duration_cast_seconds(t - hist.sets[ip].timestamp)
                          <= TTL_SECONDS
                    /\ ret' = Found(hist.sets[ip])
              /\ (/\ ip \in DOMAIN cache_
                  /\ duration_cast_seconds(t - cache_[ip].timestamp)
                        > TTL_SECONDS)
                    => (~ret'.ok /\ ip \notin DOMAIN cache_')]_vars
    /\ [][SymbolCache_clear => cache_' = NoCache]_vars

\* get has returned an entry that was set more than TTL_SECONDS before, by
\* less than a second
C29_Witness ==
    \E ip \in DOMAIN cache_ :
        /\ ret = Found(cache_[ip])
        /\ now - cache_[ip].timestamp > TTL_SECONDS * TicksPerSecond
        /\ duration_cast_seconds(now - cache_[ip].timestamp) = TTL_SECONDS

(***************************************************************************)
(* One producer and one consumer                                           *)
(***************************************************************************)
\* start has returned true: it has assigned a new thread to handler_thread_
\* and to slow_path_thread_
StartSpawns == start /\ ret'.ok

\* C31: whatever lifecycle calls are made and however they interleave, start
\* spawns the handler thread and the enrichment thread only when neither
\* has ever been spawned and neither handle owns a joinable thread, and a
\* thread that was spawned stays spawned: at most one of each ever exists
C31_SingleProducerConsumer ==
    /\ [][StartSpawns => (/\ h_pc = "none"
                          /\ s_pc = "none"
                          /\ ~handler_thread_
                          /\ ~slow_path_thread_)]_vars
    /\ [][(h_pc # "none" => h_pc' # "none")
          /\ (s_pc # "none" => s_pc' # "none")]_vars

\* start was called again after stop had detached the threads, and was
\* rejected
C31_Witness ==
    /\ state_ = "STOPPED"
    /\ stop_.pc = "idle"
    /\ h_pc # "none"
    /\ s_pc # "none"
    /\ ~ret.ok
    /\ error_message_ = "Core not initialized"

(***************************************************************************)
(* The queue between its operations and while they interleave              *)
(***************************************************************************)
\* no enqueue and no dequeue is in progress
Quiescent == h_pc = "q_idle" /\ c_pc = "idle"

\* C32: when no enqueue and no dequeue is in progress, size() is the number
\* of enqueues that returned true minus the number of dequeues that returned
\* true, and is the number of nodes linked after the sentinel head
C32_DepthExactAtQuiescence ==
    Quiescent =>
        /\ size(event_queue_) = Len(hist.enq_ok) - Len(hist.deq_ok)
        /\ size(event_queue_) = Len(Contents(event_queue_))

\* the queue is at rest with an event in it after a dequeue that returned
\* true
C32_Witness ==
    /\ Quiescent
    /\ Len(hist.deq_ok) >= 1
    /\ size(event_queue_) >= 1
    /\ Len(hist.enq_ok) >= 2

\* the producer has loaded old_tail and has yet to write old_tail->next
LinkPending == h_pc \in {"enq_store_tail", "enq_link"}

\* C33: however the statements of enqueue and dequeue interleave, the
\* consumer never deletes the node whose next the producer has yet to
\* write, the producer's write of old_tail->next never goes to a deleted
\* node, and the event the consumer copies is that of a node that is
\* allocated and that the producer has written
C33_NodeSafety ==
    /\ [][dequeue_delete => ~(LinkPending /\ p_old_tail = c_old_head)]_vars
    /\ [][enqueue_link => event_queue_'.heap[p_old_tail].st = "live"]_vars
    /\ [][dequeue_copy =>
            /\ event_queue_.heap[c_next].st = "live"
            /\ c_event' \in QEvents]_vars

\* the consumer has deleted a node while the producer was between its load
\* of tail_ and its write of old_tail->next
C33_Witness ==
    /\ c_pc = "deq_dec"
    /\ LinkPending
    /\ event_queue_.heap[c_old_head].st = "freed"
    /\ event_queue_.heap[p_old_tail].st = "live"
====
